---- MODULE Spec2Model ----
(***************************************************************************)
(* Model of the GoogleTrendWithOHLCV scripts:                              *)
(*   scripts/merge_GT_OHLCV.py          (function-based merge pipeline)    *)
(*   scripts/merge_GT_OHLCV_OOP.py      (class-based merge pipeline)       *)
(*   scripts/fetch_plot_MA_EMA_GT.py    (function-based trend helpers)     *)
(*   scripts/fetch_plot_MA_EMA_GT_OOP.py(class-based trend helpers)        *)
(*                                                                         *)
(* Data frames are modelled as records of an index, a list of column       *)
(* labels and a list of rows; column labels and other strings are          *)
(* sequences of one-character strings so that split/join/replace are       *)
(* computed as the code computes them.  Floating point numbers are         *)
(* modelled as exact rationals plus NaN and +/-inf.                        *)
(***************************************************************************)
EXTENDS Integers, Sequences, FiniteSets, TLC

VARIABLES
    script,        \* which script's __main__ is running
    pc,            \* position in that __main__ block
    err,           \* the exception that ended the run ("" while none)
    search_term,   \* the term the interest provider is queried with
    trend_data,    \* trend_df / self.trend_data
    stock_data,    \* stock_data / self.stock_data
    merged_data,   \* merged_data / self.merged_data
    correlation,   \* labels of the matrix returned by calculate_correlation
    plotted,       \* the series handed to the chart surface
    sentiment,     \* result of trend_analysis
    percentage,    \* result of percentage_trend_analysis
    console,       \* messages printed by the __main__ block
    requests,      \* the provider requests issued so far, with their outcome
    h_series,      \* helper harness: the interest series under test
    h_window,      \* helper harness: the moving-average window
    h_func,        \* helper harness: result of the function-based helper
    h_oop,         \* helper harness: result of the class-based helper
    h_ema,         \* helper harness: result of calculate_ema
    h_pct,         \* helper harness: result of percentage_trend_analysis
    ticker,        \* column harness: the ticker symbol the provider embeds
    cols_func,     \* column harness: names after join-and-strip collapsing
    cols_oop,      \* column harness: names after outer-level collapsing
    today,         \* timeframe harness: date.today() as a day number
    days_back,     \* timeframe harness: the argument of get_timeframe
    timeframe      \* timeframe harness: the returned string

vars == <<script, pc, err, search_term, trend_data, stock_data, merged_data,
          correlation, plotted, sentiment, percentage, console, requests,
          h_series, h_window, h_func, h_oop, h_ema, h_pct,
          ticker, cols_func, cols_oop, today, days_back, timeframe>>

----------------------------------------------------------------------------
(* Numbers: float64 cells as exact rationals, NaN and signed infinity.     *)

Abs(n) == IF n < 0 THEN -n ELSE n

RECURSIVE GCD(_, _)
GCD(a, b) == IF b = 0 THEN a ELSE GCD(b, a % b)

NaN == [kind |-> "nan", num |-> 0, den |-> 1]
Inf(sign) == [kind |-> "inf", num |-> sign, den |-> 1]
Rat(n, d) ==
    LET g == GCD(Abs(n), Abs(d))
        s == IF d < 0 THEN -1 ELSE 1
    IN  [kind |-> "num", num |-> (s * n) \div g, den |-> (s * d) \div g]
Num(n) == [kind |-> "num", num |-> n, den |-> 1]
Bool(b) == [kind |-> "bool", num |-> IF b THEN 1 ELSE 0, den |-> 1]
DateCell(d) == [kind |-> "date", num |-> d, den |-> 1]

IsNaN(c) == c.kind = "nan"
IsNum(c) == c.kind = "num"

\* a / b on numpy scalars and pandas columns: division by zero does not raise,
\* it yields inf, -inf or (for 0/0) NaN
Div(a, b) ==
    IF IsNaN(a) \/ IsNaN(b) THEN NaN
    ELSE IF b.num = 0
         THEN IF a.num = 0 THEN NaN ELSE Inf(IF a.num > 0 THEN 1 ELSE -1)
         ELSE Rat(a.num * b.den, a.den * b.num)

Sub(a, b) ==
    IF IsNaN(a) \/ IsNaN(b) THEN NaN
    ELSE IF a.kind = "inf" THEN a
    ELSE Rat(a.num * b.den - b.num * a.den, a.den * b.den)

Add(a, b) ==
    IF IsNaN(a) \/ IsNaN(b) THEN NaN
    ELSE IF a.kind = "inf" THEN a
    ELSE Rat(a.num * b.den + b.num * a.den, a.den * b.den)

Mul(a, b) ==
    IF IsNaN(a) \/ IsNaN(b) THEN NaN
    ELSE IF a.kind = "inf" THEN Inf(a.num * (IF b.num < 0 THEN -1 ELSE 1))
    ELSE Rat(a.num * b.num, a.den * b.den)

\* a > b as Python evaluates it: every comparison with NaN is False
Greater(a, b) ==
    IF IsNaN(a) \/ IsNaN(b) THEN FALSE
    ELSE IF a.kind = "inf" THEN a.num > 0 /\ ~(b.kind = "inf" /\ b.num > 0)
    ELSE IF b.kind = "inf" THEN b.num < 0
    ELSE a.num * b.den > b.num * a.den

Less(a, b) == Greater(b, a)

----------------------------------------------------------------------------
(* Strings as sequences of characters.                                     *)

\* str.replace(old, new): every non-overlapping occurrence, leftmost first
RECURSIVE Replace(_, _, _)
Replace(s, old, new) ==
    IF Len(s) < Len(old) \/ Len(old) = 0 THEN s
    ELSE IF SubSeq(s, 1, Len(old)) = old
         THEN new \o Replace(SubSeq(s, Len(old) + 1, Len(s)), old, new)
         ELSE <<Head(s)>> \o Replace(Tail(s), old, new)

\* str.split(c): the fields between the occurrences of the character c
RECURSIVE Split(_, _)
Split(s, c) ==
    IF \A i \in 1..Len(s) : s[i] # c THEN <<s>>
    ELSE LET i == CHOOSE k \in 1..Len(s) :
                      s[k] = c /\ \A j \in 1..(k - 1) : s[j] # c
         IN  <<SubSeq(s, 1, i - 1)>> \o Split(SubSeq(s, i + 1, Len(s)), c)

\* sep.join(parts)
RECURSIVE Join(_, _)
Join(parts, sep) ==
    IF Len(parts) = 0 THEN <<>>
    ELSE IF Len(parts) = 1 THEN parts[1]
    ELSE parts[1] \o sep \o Join(Tail(parts), sep)

sDate == <<"D", "a", "t", "e">>
sdate == <<"d", "a", "t", "e">>
sindex == <<"i", "n", "d", "e", "x">>
slevel0 == <<"l", "e", "v", "e", "l", "_", "0">>
sOpen == <<"O", "p", "e", "n">>
sHigh == <<"H", "i", "g", "h">>
sLow == <<"L", "o", "w">>
sClose == <<"C", "l", "o", "s", "e">>
sVolume == <<"V", "o", "l", "u", "m", "e">>
sIsPartial == <<"i", "s", "P", "a", "r", "t", "i", "a", "l">>
sTeslaStock == <<"T", "e", "s", "l", "a", " ", "s", "t", "o", "c", "k">>
sAppleStock == <<"A", "p", "p", "l", "e", " ", "s", "t", "o", "c", "k">>
sTrendPercentage ==
    <<"T", "r", "e", "n", "d", "_", "P", "e", "r", "c", "e", "n", "t", "a", "g", "e">>
sVolumeNormalized ==
    <<"V", "o", "l", "u", "m", "e", "N", "o", "r", "m", "a", "l", "i", "z", "e", "d">>
sTSLA == <<"T", "S", "L", "A">>

----------------------------------------------------------------------------
(* Data frames.  A column label is the sequence of its levels: <<name>>    *)
(* for single-level columns, <<outer, inner>> for two-level columns.       *)

None == [isnone |-> TRUE, index_name |-> <<>>, index |-> <<>>,
         columns |-> <<>>, rows |-> <<>>]

DataFrame(iname, idx, cols, rws) ==
    [isnone |-> FALSE, index_name |-> iname, index |-> idx,
     columns |-> cols, rows |-> rws]

NRows(df) == Len(df.index)
IsEmpty(df) == NRows(df) = 0          \* DataFrame.empty for the frames used here

\* a RangeIndex of n entries
RangeIndex(n) == [i \in 1..n |-> Num(i - 1)]

\* df[name]: on two-level columns the name selects on the outer level
HasCol(df, name) == \E i \in 1..Len(df.columns) : df.columns[i][1] = name
ColPos(df, name) == CHOOSE i \in 1..Len(df.columns) : df.columns[i][1] = name
Cell(df, r, name) == df.rows[r][ColPos(df, name)]
Col(df, name) == LET p == ColPos(df, name) IN [r \in 1..NRows(df) |-> df.rows[r][p]]

\* df[name] = values: overwrite the column, or append it as the last column
SetCol(df, name, values) ==
    IF HasCol(df, name)
    THEN [df EXCEPT !.rows = [r \in 1..NRows(df) |->
                                [df.rows[r] EXCEPT ![ColPos(df, name)] = values[r]]]]
    ELSE [df EXCEPT !.columns = Append(df.columns, <<name>>),
                    !.rows = [r \in 1..NRows(df) |-> Append(df.rows[r], values[r])]]

\* the name reset_index() gives the column made from the index: the name of
\* the index, or for an unnamed index 'index' ('level_0' when there already
\* is a column 'index')
ResetIndexName(df) ==
    IF df.index_name # <<>> THEN df.index_name
    ELSE IF HasCol(df, sindex) THEN slevel0 ELSE sindex

\* reset_index() raises ValueError ("cannot insert ..., already exists") when
\* the frame already has a column of that name
CanResetIndex(df) == ~HasCol(df, ResetIndexName(df))

\* df.reset_index(): the index becomes the first column, named after the
\* index ("index" when unnamed, padded with '' on two-level columns)
reset_index(df) ==
    LET nm == ResetIndexName(df)
        levels == IF Len(df.columns) > 0 THEN Len(df.columns[1]) ELSE 1
        label == IF levels = 2 THEN <<nm, <<>> >> ELSE <<nm>>
    IN  DataFrame(<<>>, RangeIndex(NRows(df)), <<label>> \o df.columns,
                  [r \in 1..NRows(df) |-> <<df.index[r]>> \o df.rows[r]])

\* the sequence s without its i-th element
Without(s, i) == SubSeq(s, 1, i - 1) \o SubSeq(s, i + 1, Len(s))

\* df.set_index(name)
set_index(df, name) ==
    LET p == ColPos(df, name)
    IN  DataFrame(name, Col(df, name), Without(df.columns, p),
                  [r \in 1..NRows(df) |-> Without(df.rows[r], p)])

\* the subsequence of s at the positions in keep, from position i on, in order
RECURSIVE SelectRows(_, _, _)
SelectRows(s, keep, i) ==
    IF i > Len(s) THEN <<>>
    ELSE (IF i \in keep THEN <<s[i]>> ELSE <<>>) \o SelectRows(s, keep, i + 1)

\* df.iloc[1:] in place of dropna(): drops the first row whatever it holds
dropna_first_row(df) ==
    LET keep == { i \in 1..NRows(df) : i > 1 }
    IN  [df EXCEPT !.index = SelectRows(df.index, keep, 1),
                   !.rows = SelectRows(df.rows, keep, 1)]

\* df.dropna(): drop every row with a missing value in any column
\* (inf is not a missing value)
RowHasNaN(row) == \E j \in 1..Len(row) : IsNaN(row[j])
dropna(df) ==
    LET keep == { i \in 1..NRows(df) : ~RowHasNaN(df.rows[i]) }
    IN  [df EXCEPT !.index = SelectRows(df.index, keep, 1),
                   !.rows = SelectRows(df.rows, keep, 1)]

\* pd.concat([left, right], axis=1) on the reset frames in place of the
\* merge: rows are paired by position, not by key
merge_positional(left, right, key) ==
    LET rp == ColPos(right, key)
        n == IF NRows(left) < NRows(right) THEN NRows(left) ELSE NRows(right)
        rws == [i \in 1..n |-> left.rows[i] \o Without(right.rows[i], rp)]
    IN  DataFrame(<<>>, RangeIndex(n), left.columns \o Without(right.columns, rp), rws)

\* the column names of one side of a merge: a name other than the key that
\* the other side has too gets the side's suffix ('_x' left, '_y' right)
Suffixed(cols, other, key, suffix) ==
    [i \in 1..Len(cols) |->
       IF cols[i][1] # key /\ \E j \in 1..Len(other) : other[j] = cols[i]
       THEN <<cols[i][1] \o suffix>>
       ELSE cols[i]]

\* pd.merge(left, right, on=key, how='inner') for unique keys: the rows of
\* left whose key occurs in right, in left's order, with right's other columns
merge_inner(left, right, key) ==
    LET lk == Col(left, key)
        rk == Col(right, key)
        rp == ColPos(right, key)
        match(i) == CHOOSE j \in 1..NRows(right) : rk[j] = lk[i]
        keep == { i \in 1..NRows(left) : \E j \in 1..NRows(right) : rk[j] = lk[i] }
        joined == [i \in 1..NRows(left) |->
                     IF i \in keep THEN left.rows[i] \o Without(right.rows[match(i)], rp)
                     ELSE <<>>]
        rws == SelectRows(joined, keep, 1)
    IN  DataFrame(<<>>, RangeIndex(Len(rws)),
                  Suffixed(left.columns, right.columns, key, <<"_", "x">>)
                    \o Without(Suffixed(right.columns, left.columns, key, <<"_", "y">>),
                               rp),
                  rws)

\* Series.min() / Series.max(): NaN for an empty column
RECURSIVE SeqMin(_)
SeqMin(s) ==
    IF Len(s) = 0 THEN NaN
    ELSE IF Len(s) = 1 THEN s[1]
    ELSE LET m == SeqMin(Tail(s)) IN IF Less(s[1], m) THEN s[1] ELSE m

RECURSIVE SeqMax(_)
SeqMax(s) ==
    IF Len(s) = 0 THEN NaN
    ELSE IF Len(s) = 1 THEN s[1]
    ELSE LET m == SeqMax(Tail(s)) IN IF Greater(s[1], m) THEN s[1] ELSE m

\* Series.pct_change(): NaN in the first row, v[i] / v[i-1] - 1 after it
pct_change(s) ==
    [i \in 1..Len(s) |-> IF i = 1 THEN NaN ELSE Sub(Div(s[i], s[i - 1]), Num(1))]

----------------------------------------------------------------------------
(* The two external providers.                                             *)

MaxDate == 3                          \* calendar days 1..MaxDate
Dates == 1..MaxDate
InterestValues == {0, 1}              \* sample of the 0..100 interest scale

\* the elements of a set of integers in increasing order
RECURSIVE SortedSeq(_)
SortedSeq(S) ==
    IF S = {} THEN <<>>
    ELSE LET m == CHOOSE x \in S : \A y \in S : x <= y
         IN  <<m>> \o SortedSeq(S \ {m})

\* daily bars a price provider may return; the last one has no prices
Bar(o, h, l, c, v) == [Open |-> o, High |-> h, Low |-> l, Close |-> c, Volume |-> v]
PriceBars == { Bar(Num(1), Num(2), Num(1), Num(2), Num(1)),
               Bar(Num(2), Num(3), Num(2), Num(3), Num(2)),
               Bar(NaN, NaN, NaN, NaN, Num(3)) }

\* pytrends interest_over_time() for one term: a frame indexed by 'date' with
\* the term's column and isPartial (set on the current day), or an empty
\* frame without columns when there is no data
InterestFrame(term, ds, f) ==
    LET d == SortedSeq(ds)
    IN  DataFrame(sdate, [i \in 1..Len(d) |-> DateCell(d[i])],
                  << <<term>>, <<sIsPartial>> >>,
                  [i \in 1..Len(d) |-> <<Num(f[d[i]]), Bool(d[i] = MaxDate)>>])
interest_over_time(term) ==
    { DataFrame(<<>>, <<>>, <<>>, <<>>) } \cup
    { InterestFrame(term, ds, f) :
        <<ds, f>> \in UNION { {y} \X [y -> InterestValues] :
                              y \in (SUBSET Dates) \ {{}} } }

\* yfinance download() for one ticker: a frame indexed by 'Date' whose columns
\* have two levels (price field, ticker); no rows when there is no data
PriceFrame(t, ds, f) ==
    LET d == SortedSeq(ds)
    IN  DataFrame(sDate, [i \in 1..Len(d) |-> DateCell(d[i])],
                  << <<sClose, t>>, <<sHigh, t>>, <<sLow, t>>, <<sOpen, t>>,
                     <<sVolume, t>> >>,
                  [i \in 1..Len(d) |->
                     <<f[d[i]].Close, f[d[i]].High, f[d[i]].Low, f[d[i]].Open,
                       f[d[i]].Volume>>])
yf_download(t) ==
    { PriceFrame(t, ds, f) :
        <<ds, f>> \in UNION { {y} \X [y -> PriceBars] : y \in SUBSET Dates } }

----------------------------------------------------------------------------
(* merge_GT_OHLCV.py and merge_GT_OHLCV_OOP.py: the operations.  Each      *)
(* returns a record whose err field names the exception raised ("" when    *)
(* the call returns normally).                                             *)

Ok(df) == [err |-> "", df |-> df]
Raise(e) == [err |-> e, df |-> None]

Hundred == Num(100)

\* calculate_trend_percentage without the factor 100: the change as a fraction
calculate_trend_percentage_fraction(trend) ==
    IF ~HasCol(trend, sTeslaStock) THEN Raise("KeyError")
    ELSE Ok(SetCol(trend, sTrendPercentage, pct_change(Col(trend, sTeslaStock))))

\* calculate_trend_percentage: the column name is the literal 'Tesla stock'
calculate_trend_percentage(trend) ==
    IF ~HasCol(trend, sTeslaStock) THEN Raise("KeyError")
    ELSE LET p == pct_change(Col(trend, sTeslaStock))
         IN  Ok(SetCol(trend, sTrendPercentage,
                       [i \in 1..NRows(trend) |-> Mul(p[i], Hundred)]))

\* columns.str.replace(old, new) on single-level column names
ReplaceInColumns(cols, old, new) ==
    [i \in 1..Len(cols) |-> <<Replace(cols[i][1], old, new)>>]

\* DataFrame.rename(columns={old: new}): whole-name matches only
RenameColumn(cols, old, new) ==
    [i \in 1..Len(cols) |-> IF cols[i] = <<old>> THEN <<new>> ELSE cols[i]]

\* the normalised interest frame of the function-based align_data
\* (reset_index, rename 'index', replace 'date' by 'Date' in every name)
NormalizeTrendFunc(trend) ==
    LET t1 == reset_index(trend)
        t2 == [t1 EXCEPT !.columns = RenameColumn(t1.columns, sindex, sDate)]
    IN  [t2 EXCEPT !.columns = ReplaceInColumns(t2.columns, sdate, sDate)]

\* the normalised interest frame of the class-based align_data
\* (reset_index, rename the column 'date' to 'Date')
NormalizeTrendOOP(trend) ==
    LET t1 == reset_index(trend)
    IN  [t1 EXCEPT !.columns = RenameColumn(t1.columns, sdate, sDate)]

\* '_'.join(col) for every column label (a tuple of levels)
FlattenColumns(cols) == [i \in 1..Len(cols) |-> <<Join(cols[i], <<"_">>)>>]

\* columns[-1].split('_')[1]: the token the function-based align_data takes
\* for the ticker symbol
DetectTicker(cols) == Split(cols[Len(cols)][1], "_")[2]

\* strategy (b): join the levels with '_', strip '_<detected ticker>' from
\* every name, then turn 'Date_' into 'Date'
CollapseJoinStrip(cols) ==
    LET flat == FlattenColumns(cols)
        stripped == ReplaceInColumns(flat, <<"_">> \o DetectTicker(flat), <<>>)
    IN  ReplaceInColumns(stripped, sDate \o <<"_">>, sDate)

\* strategy (a): columns.get_level_values(0)
CollapseOuter(cols) == [i \in 1..Len(cols) |-> <<cols[i][1]>>]

\* the result of an align_data call: the exception raised ("" when none),
\* the two source frames as the call leaves them, and the merged frame
Aligned(e, trend, stock, merged) ==
    [err |-> e, trend |-> trend, stock |-> stock, merged |-> merged]

\* the merge tail with Trend_Percentage derived again on the joined frame,
\* row over row, before the drop
MergeOnDate_pct_after_join(stock, trend) ==
    IF ~HasCol(stock, sDate) \/ ~HasCol(trend, sDate)
    THEN Aligned("KeyError", trend, stock, None)
    ELSE LET j == set_index(merge_inner(stock, trend, sDate), sDate)
             p == pct_change(Col(j, sTeslaStock))
         IN  Aligned("", trend, stock,
                     dropna(SetCol(j, sTrendPercentage,
                                   [i \in 1..NRows(j) |-> Mul(p[i], Hundred)])))

\* the tail shared by both align_data: inner merge on 'Date', set_index,
\* dropna
MergeOnDate(stock, trend) ==
    IF ~HasCol(stock, sDate) \/ ~HasCol(trend, sDate)
    THEN Aligned("KeyError", trend, stock, None)
    ELSE Aligned("", trend, stock,
                 dropna(set_index(merge_inner(stock, trend, sDate), sDate)))

\* align_data(trend_data, stock_data) of merge_GT_OHLCV.py; trend_data is
\* normalised in place, stock_data is a local copy
align_data(trend, stock) ==
    LET s1 == reset_index(stock)
        t3 == NormalizeTrendFunc(trend)
    IN  IF ~HasCol(t3, sDate) \/ ~HasCol(s1, sDate)
        THEN Aligned("KeyError", t3, stock, None)
        ELSE IF Len(Split(FlattenColumns(s1.columns)[Len(s1.columns)][1], "_")) < 2
             THEN Aligned("IndexError", t3, stock, None)
        ELSE LET r == MergeOnDate([s1 EXCEPT !.columns = CollapseJoinStrip(s1.columns)], t3)
             IN  Aligned(r.err, t3, stock, r.merged)

\* StockTrendAnalysis.align_data() of merge_GT_OHLCV_OOP.py; self.stock_data
\* and self.trend_data are normalised in place
align_data_OOP(trend, stock) ==
    LET s1 == reset_index(stock)
        t2 == NormalizeTrendOOP(trend)
    IN  MergeOnDate([s1 EXCEPT !.columns = CollapseOuter(s1.columns)], t2)

\* (Volume / max) * 100: scaling by the maximum alone
ScaleVolume_by_max(df) ==
    LET v == Col(df, sVolume)
    IN  [i \in 1..NRows(df) |-> Mul(Div(v[i], SeqMax(v)), Hundred)]

\* ((Volume - min) / (max - min)) * 100 over the frame it is given
ScaleVolume(df) ==
    LET v == Col(df, sVolume)
        volume_min == SeqMin(v)
        volume_max == SeqMax(v)
    IN  [i \in 1..NRows(df) |->
           Mul(Div(Sub(v[i], volume_min), Sub(volume_max, volume_min)), Hundred)]

\* normalize_volume: adds VolumeNormalized to the merged frame
normalize_volume(merged) ==
    IF ~HasCol(merged, sVolume) THEN Raise("KeyError")
    ELSE Ok(SetCol(merged, sVolumeNormalized, ScaleVolume(merged)))

\* calculate_correlation: DataFrame.corr() is keyed by the columns of the frame
calculate_correlation(merged) == merged.columns

\* the four series plot_correlation draws against the index
PlottedColumns == <<sTrendPercentage, sTeslaStock, sClose, sVolumeNormalized>>
PlotSeries(merged) ==
    IF \E i \in 1..Len(PlottedColumns) : ~HasCol(merged, PlottedColumns[i])
    THEN Raise("KeyError")
    ELSE Ok(merged)

\* plot_correlation(merged_data) of merge_GT_OHLCV.py: scales the volume of
\* the frame it is given, then draws
plot_correlation(merged) ==
    LET n == normalize_volume(merged)
    IN  IF n.err # "" THEN n ELSE PlotSeries(n.df)

\* StockTrendAnalysis.plot_correlation(): draws self.merged_data as it is
plot_correlation_OOP(merged) == PlotSeries(merged)

----------------------------------------------------------------------------
(* fetch_plot_MA_EMA_GT.py and fetch_plot_MA_EMA_GT_OOP.py: the helpers.   *)
(* A series is a sequence of cells; a helper returns a record whose err    *)
(* field names the exception raised ("" when it returns normally).         *)

RECURSIVE SeqSum(_)
SeqSum(s) == IF Len(s) = 0 THEN Num(0) ELSE Add(s[1], SeqSum(Tail(s)))

\* Series.rolling(window).mean(): NaN until the window is full
rolling_mean(s, window) ==
    [i \in 1..Len(s) |->
       IF i < window THEN NaN
       ELSE Div(SeqSum(SubSeq(s, i - window + 1, i)), Num(window))]

\* Series.dropna()
series_dropna(s) == SelectRows(s, { i \in 1..Len(s) : ~IsNaN(s[i]) }, 1)

\* the three-way comparison both trend_analysis end with
Classify(start_value, end_value) ==
    IF Greater(end_value, start_value) THEN "Positive"
    ELSE IF Less(end_value, start_value) THEN "Negative"
    ELSE "Neutral"

\* trend_analysis(trend_data, moving_average_window) of fetch_plot_MA_EMA_GT.py:
\* start and end are the first and last entries of the moving average
trend_analysis(s, window) ==
    LET ma == rolling_mean(s, window)
    IN  IF Len(ma) = 0 THEN [err |-> "IndexError", sentiment |-> ""]
        ELSE [err |-> "", sentiment |-> Classify(ma[1], ma[Len(ma)])]

\* StockTrendAnalysis.trend_analysis of fetch_plot_MA_EMA_GT_OOP.py:
\* start and end are the first and last entries of the moving average
\* after dropna()
trend_analysis_OOP(s, window) ==
    LET valid == series_dropna(rolling_mean(s, window))
    IN  IF Len(valid) = 0 THEN [err |-> "IndexError", sentiment |-> ""]
        ELSE [err |-> "", sentiment |-> Classify(valid[1], valid[Len(valid)])]

\* percentage_trend_analysis taking start and end from the valid entries of
\* the 3-wide moving average instead of the raw series
percentage_trend_analysis_of_ma(s) ==
    LET valid == series_dropna(rolling_mean(s, 3))
    IN  IF Len(valid) = 0 THEN [err |-> "IndexError", change |-> NaN, sentiment |-> ""]
        ELSE LET start_value == valid[1]
                 end_value == valid[Len(valid)]
                 percentage_change ==
                     Mul(Div(Sub(end_value, start_value), start_value), Hundred)
             IN  [err |-> "", change |-> percentage_change,
                  sentiment |-> IF Greater(percentage_change, Num(0)) THEN "Positive"
                                ELSE IF Less(percentage_change, Num(0)) THEN "Negative"
                                ELSE "Neutral"]

\* percentage_trend_analysis (the same body in both scripts)
percentage_trend_analysis(s) ==
    IF Len(s) = 0 THEN [err |-> "IndexError", change |-> NaN, sentiment |-> ""]
    ELSE LET start_value == s[1]
             end_value == s[Len(s)]
             percentage_change ==
                 Mul(Div(Sub(end_value, start_value), start_value), Hundred)
         IN  [err |-> "", change |-> percentage_change,
              sentiment |-> IF Greater(percentage_change, Num(0)) THEN "Positive"
                            ELSE IF Less(percentage_change, Num(0)) THEN "Negative"
                            ELSE "Neutral"]

\* ewm(span=window).mean() with the default adjust=True: the average of the
\* values so far with weights (1 - alpha)^i, normalised by the sum of the weights
RECURSIVE EmaAdjustedSum(_, _, _)
EmaAdjustedSum(s, window, t) ==
    IF t = 1 THEN s[1]
    ELSE Add(s[t], Mul(Sub(Num(1), Rat(2, window + 1)),
                       EmaAdjustedSum(s, window, t - 1)))
RECURSIVE EmaAdjustedWeight(_, _)
EmaAdjustedWeight(window, t) ==
    IF t = 1 THEN Num(1)
    ELSE Add(Num(1), Mul(Sub(Num(1), Rat(2, window + 1)),
                         EmaAdjustedWeight(window, t - 1)))
calculate_ema_adjusted(s, window) ==
    [t \in 1..Len(s) |->
       Div(EmaAdjustedSum(s, window, t), EmaAdjustedWeight(window, t))]

\* calculate_ema: ewm(span=window, adjust=False).mean()
RECURSIVE EmaAt(_, _, _)
EmaAt(s, window, t) ==
    LET alpha == Rat(2, window + 1)
    IN  IF t = 1 THEN s[1]
        ELSE Add(Mul(alpha, s[t]),
                 Mul(Sub(Num(1), alpha), EmaAt(s, window, t - 1)))
calculate_ema(s, window) == [t \in 1..Len(s) |-> EmaAt(s, window, t)]

\* visualize_trend: the raw series, its moving average and its EMA
visualize_trend(s, moving_average_window, ema_window) ==
    [raw |-> s, ma |-> rolling_mean(s, moving_average_window),
     ema |-> calculate_ema(s, ema_window)]

----------------------------------------------------------------------------
(* The four __main__ blocks.                                               *)

Scripts == {"merge_func", "merge_oop", "fetch_func", "fetch_oop"}
SearchTerms == {sTeslaStock, sAppleStock}
MovingAverageWindow == 3
EmaWindow == 3

NoPercentage == [change |-> NaN, sentiment |-> ""]
NoPlot == [shown |-> FALSE, df |-> None, raw |-> <<>>, ma |-> <<>>, ema |-> <<>>]

IsMerge == script \in {"merge_func", "merge_oop"}
IsFetch == script \in {"fetch_func", "fetch_oop"}

NotCalled == [called |-> FALSE, err |-> "", sentiment |-> ""]
NoEma == [called |-> FALSE, values |-> <<>>]
NoChange == [called |-> FALSE, err |-> "", change |-> NaN, sentiment |-> ""]
NoColumns == [called |-> FALSE, err |-> "", names |-> <<>>]

HarnessIdle ==
    /\ h_series = <<>> /\ h_window = 0 /\ h_func = NotCalled /\ h_oop = NotCalled
    /\ h_ema = NoEma /\ h_pct = NoChange
    /\ ticker = <<>> /\ cols_func = NoColumns /\ cols_oop = NoColumns
    /\ today = 0 /\ days_back = 0 /\ timeframe = <<>>

harness == <<h_series, h_window, h_func, h_oop, h_ema, h_pct,
             ticker, cols_func, cols_oop, today, days_back, timeframe>>

Init ==
    /\ script \in Scripts
    /\ search_term \in SearchTerms
    /\ pc = "start"
    /\ err = ""
    /\ trend_data = None
    /\ stock_data = None
    /\ merged_data = None
    /\ correlation = <<>>
    /\ plotted = NoPlot
    /\ sentiment = ""
    /\ percentage = NoPercentage
    /\ console = <<>>
    /\ requests = <<>>
    /\ HarnessIdle

\* an uncaught exception ends the run
Fail(e) == pc' = "failed" /\ err' = e

\* one entry of the request log
Request(provider, ok) == [provider |-> provider, ok |-> ok]

\* download_trend_data with the provider error caught and the request
\* repeated until it succeeds
DownloadTrendData_retry ==
    /\ script \in Scripts /\ pc = "start"
    /\ \/ requests' = Append(requests, Request("trends", TRUE))
       \/ requests' = requests \o <<Request("trends", FALSE), Request("trends", TRUE)>>
    /\ trend_data' \in interest_over_time(search_term)
    /\ pc' = "trend_downloaded"
    /\ UNCHANGED <<script, err, search_term, stock_data, merged_data, correlation,
                   plotted, sentiment, percentage, console, harness>>

\* download_trend_data: one request to the interest provider; whatever the
\* provider returns is handed to the caller, and an error the provider
\* raises leaves the function and the __main__ block uncaught
DownloadTrendData ==
    /\ script \in Scripts /\ pc = "start"
    /\ \/ /\ requests' = Append(requests, Request("trends", TRUE))
          /\ trend_data' \in interest_over_time(search_term)
          /\ pc' = "trend_downloaded" /\ UNCHANGED err
       \/ /\ requests' = Append(requests, Request("trends", FALSE))
          /\ Fail("ProviderError") /\ UNCHANGED trend_data
    /\ UNCHANGED <<script, search_term, stock_data, merged_data, correlation,
                   plotted, sentiment, percentage, console, harness>>

\* merge scripts: trend = calculate_trend_percentage(trend)
CalculateTrendPercentage ==
    /\ IsMerge /\ pc = "trend_downloaded"
    /\ LET r == calculate_trend_percentage(trend_data)
       IN  IF r.err # ""
           THEN Fail(r.err) /\ UNCHANGED trend_data
           ELSE trend_data' = r.df /\ pc' = "percentage_calculated" /\ UNCHANGED err
    /\ UNCHANGED <<script, requests, search_term, stock_data, merged_data, correlation,
                   plotted, sentiment, percentage, console, harness>>

\* merge scripts: download_ohlcv_data('TSLA', ...)
DownloadOhlcvData ==
    /\ IsMerge /\ pc = "percentage_calculated"
    /\ \/ /\ requests' = Append(requests, Request("prices", TRUE))
          /\ stock_data' \in yf_download(sTSLA)
          /\ pc' = "ohlcv_downloaded" /\ UNCHANGED err
       \/ /\ requests' = Append(requests, Request("prices", FALSE))
          /\ Fail("ProviderError") /\ UNCHANGED stock_data
    /\ UNCHANGED <<script, search_term, trend_data, merged_data, correlation,
                   plotted, sentiment, percentage, console, harness>>

\* merge scripts: merged_data = align_data(...)
AlignData ==
    /\ IsMerge /\ pc = "ohlcv_downloaded"
    /\ LET r == IF script = "merge_func" THEN align_data(trend_data, stock_data)
                ELSE align_data_OOP(trend_data, stock_data)
       IN  /\ trend_data' = r.trend
           /\ stock_data' = r.stock
           /\ merged_data' = r.merged
           /\ IF r.err # "" THEN Fail(r.err)
              ELSE pc' = "aligned" /\ UNCHANGED err
    /\ UNCHANGED <<script, requests, search_term, correlation, plotted, sentiment,
                   percentage, console, harness>>

\* class-based merge script: normalize_volume() between align and correlation
NormalizeVolume ==
    /\ script = "merge_oop" /\ pc = "aligned"
    /\ LET r == normalize_volume(merged_data)
       IN  IF r.err # ""
           THEN Fail(r.err) /\ UNCHANGED merged_data
           ELSE merged_data' = r.df /\ pc' = "normalized" /\ UNCHANGED err
    /\ UNCHANGED <<script, requests, search_term, trend_data, stock_data, correlation,
                   plotted, sentiment, percentage, console, harness>>

\* merge scripts: correlation = calculate_correlation(merged_data); print it
CalculateCorrelation ==
    /\ \/ script = "merge_func" /\ pc = "aligned"
       \/ script = "merge_oop" /\ pc = "normalized"
    /\ correlation' = calculate_correlation(merged_data)
    /\ console' = Append(console, "Correlation between Google Trends and Stock Data:")
    /\ pc' = "correlated"
    /\ UNCHANGED <<script, requests, err, search_term, trend_data, stock_data, merged_data,
                   plotted, sentiment, percentage, harness>>

\* merge scripts: plot_correlation(merged_data)
PlotCorrelation ==
    /\ IsMerge /\ pc = "correlated"
    /\ LET r == IF script = "merge_func" THEN plot_correlation(merged_data)
                ELSE plot_correlation_OOP(merged_data)
       IN  IF r.err # ""
           THEN Fail(r.err) /\ UNCHANGED <<merged_data, plotted>>
           ELSE /\ merged_data' = r.df
                /\ plotted' = [plotted EXCEPT !.shown = TRUE, !.df = r.df]
                /\ pc' = "done" /\ UNCHANGED err
    /\ UNCHANGED <<script, requests, search_term, trend_data, stock_data, correlation,
                   sentiment, percentage, console, harness>>

\* function-based fetch script: if trend_df.empty: print(...)
ReportNoData ==
    /\ script = "fetch_func" /\ pc = "trend_downloaded"
    /\ IsEmpty(trend_data)
    /\ console' = Append(console, "No trend data available for the given term.")
    /\ pc' = "done"
    /\ UNCHANGED <<script, requests, err, search_term, trend_data, stock_data, merged_data,
                   correlation, plotted, sentiment, percentage, harness>>

\* fetch scripts: sentiment = trend_analysis(..., moving_average_window=3)
TrendAnalysis ==
    /\ IsFetch /\ pc = "trend_downloaded"
    /\ script = "fetch_func" => ~IsEmpty(trend_data)
    /\ IF ~HasCol(trend_data, search_term)
       THEN Fail("KeyError") /\ UNCHANGED <<sentiment, console>>
       ELSE LET s == Col(trend_data, search_term)
                r == IF script = "fetch_func"
                     THEN trend_analysis(s, MovingAverageWindow)
                     ELSE trend_analysis_OOP(s, MovingAverageWindow)
            IN  IF r.err # ""
                THEN Fail(r.err) /\ UNCHANGED <<sentiment, console>>
                ELSE /\ sentiment' = r.sentiment
                     /\ console' = Append(console, "Trend Analysis Sentiment")
                     /\ pc' = "sentiment_done" /\ UNCHANGED err
    /\ UNCHANGED <<script, requests, search_term, trend_data, stock_data, merged_data,
                   correlation, plotted, percentage, harness>>

\* fetch scripts: percentage_change, sentiment = percentage_trend_analysis(...)
PercentageTrendAnalysis ==
    /\ IsFetch /\ pc = "sentiment_done"
    /\ LET r == percentage_trend_analysis(Col(trend_data, search_term))
       IN  IF r.err # ""
           THEN Fail(r.err) /\ UNCHANGED <<percentage, console>>
           ELSE /\ percentage' = [change |-> r.change, sentiment |-> r.sentiment]
                /\ console' = Append(console, "Percentage Trend Analysis")
                /\ pc' = "percentage_done" /\ UNCHANGED err
    /\ UNCHANGED <<script, requests, search_term, trend_data, stock_data, merged_data,
                   correlation, plotted, sentiment, harness>>

\* fetch scripts: visualize_trend(..., moving_average_window=3, ema_window=3)
VisualizeTrend ==
    /\ IsFetch /\ pc = "percentage_done"
    /\ LET v == visualize_trend(Col(trend_data, search_term),
                                MovingAverageWindow, EmaWindow)
       IN  plotted' = [plotted EXCEPT !.shown = TRUE, !.raw = v.raw,
                                      !.ma = v.ma, !.ema = v.ema]
    /\ pc' = "done"
    /\ UNCHANGED <<script, requests, err, search_term, trend_data, stock_data, merged_data,
                   correlation, sentiment, percentage, console, harness>>

Next ==
    \/ DownloadTrendData
    \/ CalculateTrendPercentage
    \/ DownloadOhlcvData
    \/ AlignData
    \/ NormalizeVolume
    \/ CalculateCorrelation
    \/ PlotCorrelation
    \/ ReportNoData
    \/ TrendAnalysis
    \/ PercentageTrendAnalysis
    \/ VisualizeTrend

Spec == Init /\ [][Next]_vars

----------------------------------------------------------------------------
(* Helper harness: the trend helpers of the two fetch scripts applied to   *)
(* the same series and window.                                             *)

MaxLen == 4                           \* longest series tried
MaxWindow == 3                        \* widest moving-average window tried

\* all sequences over S of length n
RECURSIVE SeqsOfLen(_, _)
SeqsOfLen(S, n) ==
    IF n = 0 THEN {<<>>}
    ELSE { Append(q, x) : q \in SeqsOfLen(S, n - 1), x \in S }

SeriesValues == {0, 1, 2}             \* sample of the 0..100 interest scale
\* series on the full 0..100 scale
ScaleSeries == { <<Num(10), Num(20), Num(30)>>, <<Num(100), Num(90)>>,
                 <<Num(100), Num(100)>>, <<Num(90), Num(100)>>,
                 <<Num(3), Num(100), Num(7), Num(5), Num(50)>> }
SeriesInputs ==
    UNION { { [i \in 1..n |-> Num(q[i])] : q \in SeqsOfLen(SeriesValues, n) } :
            n \in 0..MaxLen }
    \cup ScaleSeries

Returned(r) == [called |-> TRUE, err |-> r.err, sentiment |-> r.sentiment]

main == <<script, pc, err, search_term, trend_data, stock_data, merged_data,
          correlation, plotted, sentiment, percentage, console, requests>>

MainIdle(name) ==
    /\ script = name /\ pc = "start" /\ err = "" /\ search_term = sTeslaStock
    /\ trend_data = None /\ stock_data = None /\ merged_data = None
    /\ correlation = <<>> /\ plotted = NoPlot /\ sentiment = ""
    /\ percentage = NoPercentage /\ console = <<>> /\ requests = <<>>

InitHelpers ==
    /\ MainIdle("helpers")
    /\ h_series \in SeriesInputs
    /\ h_window \in 1..MaxWindow
    /\ h_func = NotCalled /\ h_oop = NotCalled
    /\ h_ema = NoEma /\ h_pct = NoChange
    /\ ticker = <<>> /\ cols_func = NoColumns /\ cols_oop = NoColumns
    /\ today = 0 /\ days_back = 0 /\ timeframe = <<>>

\* trend_analysis(series, moving_average_window) of fetch_plot_MA_EMA_GT.py
CallTrendAnalysis ==
    /\ script = "helpers" /\ ~h_func.called
    /\ h_func' = Returned(trend_analysis(h_series, h_window))
    /\ UNCHANGED <<main, h_series, h_window, h_oop, h_ema, h_pct,
                   ticker, cols_func, cols_oop, today, days_back, timeframe>>

\* StockTrendAnalysis.trend_analysis(moving_average_window) of
\* fetch_plot_MA_EMA_GT_OOP.py, with self.trend_data holding the series
CallTrendAnalysisOOP ==
    /\ script = "helpers" /\ ~h_oop.called
    /\ h_oop' = Returned(trend_analysis_OOP(h_series, h_window))
    /\ UNCHANGED <<main, h_series, h_window, h_func, h_ema, h_pct,
                   ticker, cols_func, cols_oop, today, days_back, timeframe>>

\* calculate_ema(series, window) (the same body in both fetch scripts)
CallCalculateEma ==
    /\ script = "helpers" /\ ~h_ema.called
    /\ h_ema' = [called |-> TRUE, values |-> calculate_ema(h_series, h_window)]
    /\ UNCHANGED <<main, h_series, h_window, h_func, h_oop, h_pct,
                   ticker, cols_func, cols_oop, today, days_back, timeframe>>

\* percentage_trend_analysis(series) (the same body in both fetch scripts)
CallPercentageTrendAnalysis ==
    /\ script = "helpers" /\ ~h_pct.called
    /\ LET r == percentage_trend_analysis(h_series)
       IN  h_pct' = [called |-> TRUE, err |-> r.err, change |-> r.change,
                     sentiment |-> r.sentiment]
    /\ UNCHANGED <<main, h_series, h_window, h_func, h_oop, h_ema,
                   ticker, cols_func, cols_oop, today, days_back, timeframe>>

NextHelpers ==
    \/ CallTrendAnalysis
    \/ CallTrendAnalysisOOP
    \/ CallCalculateEma
    \/ CallPercentageTrendAnalysis

SpecHelpers == InitHelpers /\ [][NextHelpers]_vars

----------------------------------------------------------------------------
(* Column harness: the two ways align_data collapses the two-level column  *)
(* names of a single-ticker price frame.                                   *)

MaxTickerLen == 3                     \* longest ticker symbol tried
TickerChars == {"A", "B", "C", "_"}
\* symbols that start and end with a letter; '_' may separate their parts
Tickers == { t \in UNION { SeqsOfLen(TickerChars, n) : n \in 1..MaxTickerLen } :
               t[1] # "_" /\ t[Len(t)] # "_" }

\* the column names of the price frame for ticker t after reset_index()
ResetPriceColumns(t) == reset_index(PriceFrame(t, {}, <<>>)).columns

InitColumns ==
    /\ MainIdle("columns")
    /\ ticker \in Tickers
    /\ cols_func = NoColumns /\ cols_oop = NoColumns
    /\ h_series = <<>> /\ h_window = 0 /\ h_func = NotCalled /\ h_oop = NotCalled
    /\ h_ema = NoEma /\ h_pct = NoChange
    /\ today = 0 /\ days_back = 0 /\ timeframe = <<>>

\* lines 86-96 of align_data in merge_GT_OHLCV.py
CollapseFunc ==
    /\ script = "columns" /\ ~cols_func.called
    /\ LET c == ResetPriceColumns(ticker)
       IN  cols_func' =
             IF Len(Split(FlattenColumns(c)[Len(c)][1], "_")) < 2
             THEN [called |-> TRUE, err |-> "IndexError", names |-> <<>>]
             ELSE [called |-> TRUE, err |-> "", names |-> CollapseJoinStrip(c)]
    /\ UNCHANGED <<main, h_series, h_window, h_func, h_oop, h_ema, h_pct,
                   ticker, cols_oop, today, days_back, timeframe>>

\* lines 97-98 of align_data in merge_GT_OHLCV_OOP.py
CollapseOOP ==
    /\ script = "columns" /\ ~cols_oop.called
    /\ cols_oop' = [called |-> TRUE, err |-> "",
                    names |-> CollapseOuter(ResetPriceColumns(ticker))]
    /\ UNCHANGED <<main, h_series, h_window, h_func, h_oop, h_ema, h_pct,
                   ticker, cols_func, today, days_back, timeframe>>

NextColumns == CollapseFunc \/ CollapseOOP

SpecColumns == InitColumns /\ [][NextColumns]_vars

----------------------------------------------------------------------------
(* Timeframe harness: get_timeframe(days_back), the same body in           *)
(* fetch_plot_MA_EMA_GT.py, fetch_plot_MA_EMA_GT_OOP.py and                *)
(* merge_GT_OHLCV_OOP.py.  A date is the number of days since 1970-01-01   *)
(* in the proleptic Gregorian calendar, as datetime.date counts them.      *)

\* the calendar date (year, month, day) of day number z
CivilFromDays(z) ==
    LET zz == z + 719468
        era == zz \div 146097
        doe == zz - era * 146097
        yoe == (doe - doe \div 1460 + doe \div 36524 - doe \div 146096) \div 365
        doy == doe - (365 * yoe + yoe \div 4 - yoe \div 100)
        mp == (5 * doy + 2) \div 153
        d == doy - (153 * mp + 2) \div 5 + 1
        m == IF mp < 10 THEN mp + 3 ELSE mp - 9
        y == yoe + era * 400 + (IF m <= 2 THEN 1 ELSE 0)
    IN  [year |-> y, month |-> m, day |-> d]

\* decimal digits of n >= 0, zero-padded on the left to at least width
DigitChars == <<"0", "1", "2", "3", "4", "5", "6", "7", "8", "9">>
RECURSIVE Digits(_)
Digits(n) == IF n < 10 THEN <<DigitChars[n + 1]>>
             ELSE Digits(n \div 10) \o <<DigitChars[(n % 10) + 1]>>
RECURSIVE ZeroPad(_, _)
ZeroPad(s, width) == IF Len(s) >= width THEN s ELSE ZeroPad(<<"0">> \o s, width)

\* date.strftime('%Y-%m-%d')
strftime_ymd(z) ==
    LET c == CivilFromDays(z)
    IN  ZeroPad(Digits(c.year), 4) \o <<"-">> \o ZeroPad(Digits(c.month), 2)
        \o <<"-">> \o ZeroPad(Digits(c.day), 2)

\* get_timeframe with the window laid forward from today
get_timeframe_forward(now, n) ==
    strftime_ymd(now) \o <<" ">> \o strftime_ymd(now + n)

\* get_timeframe(days_back) when date.today() is `now`
get_timeframe(now, n) ==
    LET end_date == now
        start_date == end_date - n
    IN  strftime_ymd(start_date) \o <<" ">> \o strftime_ymd(end_date)

\* the day number of a calendar date
DaysFromCivil(y, m, d) ==
    LET yy == IF m <= 2 THEN y - 1 ELSE y
        era == yy \div 400
        yoe == yy - era * 400
        doy == (153 * (IF m > 2 THEN m - 3 ELSE m + 9) + 2) \div 5 + d - 1
        doe == yoe * 365 + yoe \div 4 - yoe \div 100 + doy
    IN  era * 146097 + doe - 719468

MaxTodaySpan == 4                     \* consecutive days tried as today
MaxDaysBack == 10                     \* days_back values 0..MaxDaysBack tried
DaysBackMain == 20                    \* the value the __main__ blocks pass

Todays == { DaysFromCivil(2024, 2, 27) + k : k \in 0..MaxTodaySpan }
          \cup { DaysFromCivil(2025, 1, 1), DaysFromCivil(2026, 11, 2) }
DaysBackInputs == (0..MaxDaysBack) \cup {DaysBackMain, 365, 366}

InitTimeframe ==
    /\ MainIdle("timeframe")
    /\ today \in Todays
    /\ days_back \in DaysBackInputs
    /\ timeframe = <<>>
    /\ h_series = <<>> /\ h_window = 0 /\ h_func = NotCalled /\ h_oop = NotCalled
    /\ h_ema = NoEma /\ h_pct = NoChange
    /\ ticker = <<>> /\ cols_func = NoColumns /\ cols_oop = NoColumns

GetTimeframe ==
    /\ script = "timeframe" /\ timeframe = <<>>
    /\ timeframe' = get_timeframe(today, days_back)
    /\ UNCHANGED <<main, h_series, h_window, h_func, h_oop, h_ema, h_pct,
                   ticker, cols_func, cols_oop, today, days_back>>

NextTimeframe == GetTimeframe

SpecTimeframe == InitTimeframe /\ [][NextTimeframe]_vars

----------------------------------------------------------------------------
(* Session harness: the methods of StockTrendAnalysis                      *)
(* (merge_GT_OHLCV_OOP.py) called in any order on one object.  pc names    *)
(* the method called last, err the exception it raised ("" when it         *)
(* returned); correlation and plotted hold what that call returned or      *)
(* drew.  The three fields start as None.                                  *)

\* the tables the providers return in a session
SessionBar(d) == Bar(Num(d), Num(d + 1), Num(d), Num(d + 1), Num(d))
SessionInterest ==
    { DataFrame(<<>>, <<>>, <<>>, <<>>),
      InterestFrame(sTeslaStock, {1, 2}, [d \in {1, 2} |-> d]) }
SessionPrices ==
    { PriceFrame(sTSLA, {2, 3}, [d \in {2, 3} |-> SessionBar(d)]) }

\* align_data() assigning self.merged_data before it touches
\* self.trend_data
align_data_method_eager(trend, stock, merged) ==
    IF stock.isnone THEN Aligned("AttributeError", trend, stock, merged)
    ELSE IF ~CanResetIndex(stock) THEN Aligned("ValueError", trend, stock, merged)
    ELSE LET s1 == reset_index(stock)
         IN  IF trend.isnone THEN Aligned("AttributeError", trend, s1, s1)
             ELSE IF ~CanResetIndex(trend) THEN Aligned("ValueError", trend, s1, s1)
             ELSE LET r == align_data_OOP(trend, stock)
                  IN  Aligned(r.err, r.trend, r.stock,
                              IF r.err = "" THEN r.merged ELSE s1)

\* StockTrendAnalysis.align_data() on fields that may still be None or may
\* have been normalised by an earlier call: the statements run in order and
\* the first one that raises ends the call, keeping what was assigned before
align_data_method(trend, stock, merged) ==
    IF stock.isnone THEN Aligned("AttributeError", trend, stock, merged)
    ELSE IF ~CanResetIndex(stock) THEN Aligned("ValueError", trend, stock, merged)
    ELSE LET s1 == reset_index(stock)
         IN  IF trend.isnone THEN Aligned("AttributeError", trend, s1, merged)
             ELSE IF ~CanResetIndex(trend) THEN Aligned("ValueError", trend, s1, merged)
             ELSE LET r == align_data_OOP(trend, stock)
                  IN  Aligned(r.err, r.trend, r.stock,
                              IF r.err = "" THEN r.merged ELSE merged)

InitSession ==
    /\ MainIdle("session")
    /\ HarnessIdle

\* a method call ends: pc names it, err is what it raised
Called(method, e) == pc' = method /\ err' = e

\* download_trend_data(): self.trend_data is assigned what the provider
\* returns; an error of the provider leaves the fields as they are
SessionDownloadTrendData ==
    /\ script = "session"
    /\ \/ trend_data' \in SessionInterest /\ Called("download_trend_data", "")
       \/ UNCHANGED trend_data /\ Called("download_trend_data", "ProviderError")
    /\ correlation' = <<>> /\ plotted' = NoPlot
    /\ UNCHANGED <<script, search_term, stock_data, merged_data,
                   sentiment, percentage, console, requests, harness>>

\* calculate_trend_percentage()
SessionCalculateTrendPercentage ==
    /\ script = "session"
    /\ LET r == IF trend_data.isnone THEN Raise("TypeError")
                ELSE calculate_trend_percentage(trend_data)
       IN  /\ Called("calculate_trend_percentage", r.err)
           /\ trend_data' = IF r.err = "" THEN r.df ELSE trend_data
    /\ correlation' = <<>> /\ plotted' = NoPlot
    /\ UNCHANGED <<script, search_term, stock_data, merged_data,
                   sentiment, percentage, console, requests, harness>>

\* download_ohlcv_data(ticker, start_date, end_date)
SessionDownloadOhlcvData ==
    /\ script = "session"
    /\ \/ stock_data' \in SessionPrices /\ Called("download_ohlcv_data", "")
       \/ UNCHANGED stock_data /\ Called("download_ohlcv_data", "ProviderError")
    /\ correlation' = <<>> /\ plotted' = NoPlot
    /\ UNCHANGED <<script, search_term, trend_data, merged_data,
                   sentiment, percentage, console, requests, harness>>

\* align_data()
SessionAlignData ==
    /\ script = "session"
    /\ LET r == align_data_method(trend_data, stock_data, merged_data)
       IN  /\ Called("align_data", r.err)
           /\ trend_data' = r.trend
           /\ stock_data' = r.stock
           /\ merged_data' = r.merged
    /\ correlation' = <<>> /\ plotted' = NoPlot
    /\ UNCHANGED <<script, search_term, sentiment, percentage, console, requests,
                   harness>>

\* normalize_volume()
SessionNormalizeVolume ==
    /\ script = "session"
    /\ LET r == IF merged_data.isnone THEN Raise("TypeError")
                ELSE normalize_volume(merged_data)
       IN  /\ Called("normalize_volume", r.err)
           /\ merged_data' = IF r.err = "" THEN r.df ELSE merged_data
    /\ correlation' = <<>> /\ plotted' = NoPlot
    /\ UNCHANGED <<script, search_term, trend_data, stock_data,
                   sentiment, percentage, console, requests, harness>>

\* calculate_correlation()
SessionCalculateCorrelation ==
    /\ script = "session"
    /\ IF merged_data.isnone
       THEN Called("calculate_correlation", "AttributeError") /\ correlation' = <<>>
       ELSE /\ Called("calculate_correlation", "")
            /\ correlation' = calculate_correlation(merged_data)
    /\ plotted' = NoPlot
    /\ UNCHANGED <<script, search_term, trend_data, stock_data, merged_data,
                   sentiment, percentage, console, requests, harness>>

\* plot_correlation()
SessionPlotCorrelation ==
    /\ script = "session"
    /\ LET r == IF merged_data.isnone THEN Raise("AttributeError")
                ELSE plot_correlation_OOP(merged_data)
       IN  /\ Called("plot_correlation", r.err)
           /\ plotted' = IF r.err = ""
                         THEN [NoPlot EXCEPT !.shown = TRUE, !.df = r.df]
                         ELSE NoPlot
    /\ correlation' = <<>>
    /\ UNCHANGED <<script, search_term, trend_data, stock_data, merged_data,
                   sentiment, percentage, console, requests, harness>>

NextSession ==
    \/ SessionDownloadTrendData
    \/ SessionCalculateTrendPercentage
    \/ SessionDownloadOhlcvData
    \/ SessionAlignData
    \/ SessionNormalizeVolume
    \/ SessionCalculateCorrelation
    \/ SessionPlotCorrelation

SpecSession == InitSession /\ [][NextSession]_vars

----------------------------------------------------------------------------
(* Properties of the merge pipelines.                                      *)

Max(S) == CHOOSE x \in S : \A y \in S : y <= x
Min(S) == CHOOSE x \in S : \A y \in S : x <= y

\* align_data has been called (the price fetch has returned and the run is
\* past it)
AlignRan == IsMerge /\ ~stock_data.isnone /\ pc # "ohlcv_downloaded"
\* align_data has returned normally
AfterAlign == IsMerge /\ pc \in {"aligned", "normalized", "correlated", "done"}
\* the merged frame is about to be consumed by calculate_correlation or
\* plot_correlation
HandedOver ==
    \/ script = "merge_func" /\ pc \in {"aligned", "correlated"}
    \/ script = "merge_oop" /\ pc \in {"normalized", "correlated"}

\* the dates and values of the two source series, read off the frames the
\* run holds once align_data has been called
DateAt(df, i) == IF HasCol(df, sDate) THEN Cell(df, i, sDate).num ELSE df.index[i].num
DatesOf(df) == { DateAt(df, i) : i \in 1..NRows(df) }
RowOn(df, d) == CHOOSE i \in 1..NRows(df) : DateAt(df, i) = d
TrendDates == DatesOf(trend_data)
StockDates == DatesOf(stock_data)
JoinedDates == TrendDates \cap StockDates
MergedDates == DatesOf(merged_data)
InterestOn(d) == Cell(trend_data, RowOn(trend_data, d), sTeslaStock).num
VolumeOn(d) == Cell(stock_data, RowOn(stock_data, d), sVolume).num
PricesMissingOn(d) ==
    \E c \in {sOpen, sHigh, sLow, sClose} :
        IsNaN(Cell(stock_data, RowOn(stock_data, d), c))

\* percent change of cur versus prev, as a cell
ExpectedPct(cur, prev) ==
    IF prev = 0 THEN (IF cur = 0 THEN NaN ELSE Inf(1))
    ELSE Rat((cur - prev) * 100, prev)

\* d has an earlier date in S, and the Trend_Percentage of the merged row i
\* is the percent change of the interest on its date versus the interest on
\* the latest earlier date in S
PctVersusPrevious(i, S) ==
    LET d == merged_data.index[i].num
        P == { x \in S : x < d }
    IN  /\ P # {}
        /\ Cell(merged_data, i, sTrendPercentage)
             = ExpectedPct(InterestOn(d), InterestOn(Max(P)))

\* C1 (as claimed): in both merge pipelines the trend_percentage of every
\* row of the merged table is the percent change of the interest value
\* versus the immediately preceding row of the joined table.
C1_AfterJoin ==
    AfterAlign =>
        \A i \in 1..NRows(merged_data) : PctVersusPrevious(i, JoinedDates)

\* C1 (amended): in both merge pipelines the trend_percentage of every row
\* of the merged table is the percent change of the interest value versus
\* the immediately preceding row of the un-joined interest series (it is
\* derived before the inner join on Date).
C1_BeforeJoin ==
    AfterAlign =>
        \A i \in 1..NRows(merged_data) : PctVersusPrevious(i, TrendDates)

\* a merged row whose predecessor in the interest series did not survive the
\* join although an earlier joined row exists
C1_Witness ==
    /\ AfterAlign
    /\ \E i \in 1..NRows(merged_data) :
         LET d == merged_data.index[i].num
         IN  /\ { x \in JoinedDates : x < d } # {}
             /\ Max({ x \in TrendDates : x < d }) \notin JoinedDates

\* C2 (as claimed): align applied to an interest table and a price table
\* whose date sets are disjoint fails with AlignmentError; it never returns
\* an empty merged table.
C2_DisjointRaises ==
    (AlignRan /\ JoinedDates = {}) => (pc = "failed" /\ err = "AlignmentError")

\* C3 (as claimed): a fetch whose provider returns an empty table fails
\* with NoDataError instead of handing the empty table to the caller.
C3_EmptyFetchRaises ==
    /\ (~trend_data.isnone /\ IsEmpty(trend_data))
         => (pc = "failed" /\ err = "NoDataError")
    /\ (~stock_data.isnone /\ IsEmpty(stock_data))
         => (pc = "failed" /\ err = "NoDataError")

\* the Trend_Percentage the joined row of date d carries into dropna is absent
TrendPctAbsentOn(d) ==
    LET P == { x \in TrendDates : x < d }
    IN  P = {} \/ (InterestOn(d) = 0 /\ InterestOn(Max(P)) = 0)

\* exactly the first joined row has an absent trend_percentage
OnlyFirstPctAbsent ==
    /\ JoinedDates # {}
    /\ { d \in JoinedDates : TrendPctAbsentOn(d) } = {Min(JoinedDates)}

\* C6 (as claimed): dropping rows with missing values always removes at
\* least the first row of the joined table, and a merged table in which
\* exactly the first row has an absent trend_percentage has exactly one
\* fewer row after the drop, for every pair of source tables with a common
\* date.
C6_FirstRowAlwaysDropped ==
    (AfterAlign /\ JoinedDates # {}) =>
        /\ Min(JoinedDates) \notin MergedDates
        /\ OnlyFirstPctAbsent
             => NRows(merged_data) = Cardinality(JoinedDates) - 1

\* C6 (amended): dropping rows with missing values removes the first row of
\* the joined table exactly when that row has an absent field (its
\* trend_percentage or its prices), not always; a merged table in which
\* exactly the first row has an absent trend_percentage and no other value
\* is missing has exactly one fewer row after the drop.
C6_FirstRowDroppedIfAbsent ==
    (AfterAlign /\ JoinedDates # {}) =>
        /\ Min(JoinedDates) \notin MergedDates
             <=> (TrendPctAbsentOn(Min(JoinedDates))
                  \/ PricesMissingOn(Min(JoinedDates)))
        /\ (OnlyFirstPctAbsent /\ \A d \in JoinedDates : ~PricesMissingOn(d))
             => NRows(merged_data) = Cardinality(JoinedDates) - 1

\* several joined rows of which exactly the first has an absent field
C6_Witness ==
    /\ AfterAlign
    /\ Cardinality(JoinedDates) >= 2
    /\ OnlyFirstPctAbsent
    /\ \A d \in JoinedDates : ~PricesMissingOn(d)
    /\ NRows(merged_data) = Cardinality(JoinedDates) - 1

\* the cells of row i of the merged frame outside the column `name`
CellsExcept(i, name) ==
    { merged_data.rows[i][j] :
        j \in { k \in 1..Len(merged_data.columns) : merged_data.columns[k] # <<name>> } }

\* C7 (as claimed): every row of the merged table handed to correlation and
\* plotting has a date present in both series and no absent field in any
\* column.
C7_NoAbsentField ==
    HandedOver =>
        \A i \in 1..NRows(merged_data) :
            /\ merged_data.index[i].num \in JoinedDates
            /\ ~RowHasNaN(merged_data.rows[i])

\* C7 (amended): every row of the merged table handed to correlation and
\* plotting has a date present in both series and no absent field in any
\* column other than volume_normalized; volume_normalized, which the
\* class-based pipeline derives after the drop, is absent exactly when all
\* remaining rows have the same volume.
C7_NoAbsentSourceField ==
    HandedOver =>
        \A i \in 1..NRows(merged_data) :
            /\ merged_data.index[i].num \in JoinedDates
            /\ \A c \in CellsExcept(i, sVolumeNormalized) : ~IsNaN(c)
            /\ HasCol(merged_data, sVolumeNormalized) =>
                 (IsNaN(Cell(merged_data, i, sVolumeNormalized))
                    <=> \A k \in 1..NRows(merged_data) :
                          Cell(merged_data, k, sVolume) = Cell(merged_data, i, sVolume))

\* a non-empty merged table handed over after the join left out a date of
\* the interest series and the drop-missing step removed a joined row
C7_Witness ==
    /\ HandedOver
    /\ NRows(merged_data) >= 1
    /\ NRows(merged_data) < Cardinality(JoinedDates)
    /\ TrendDates \ StockDates # {}

\* (v - lo) / (hi - lo) * 100 as a cell
ExpectedScale(v, lo, hi) ==
    IF hi = lo THEN NaN ELSE Rat((v - lo) * 100, hi - lo)

MergedVolumes == { Cell(merged_data, i, sVolume).num : i \in 1..NRows(merged_data) }
JoinedVolumes == { VolumeOn(d) : d \in JoinedDates }
HasVolumeNormalized == AfterAlign /\ HasCol(merged_data, sVolumeNormalized)

\* every VolumeNormalized is the min-max scaling of its row's Volume over the
\* volumes V, within [0, 100] with 0 at the minimum and 100 at the maximum
\* when they differ
ScaledOver(V) ==
    \A i \in 1..NRows(merged_data) :
        LET v == Cell(merged_data, i, sVolume).num
            n == Cell(merged_data, i, sVolumeNormalized)
        IN  /\ n = ExpectedScale(v, Min(V), Max(V))
            /\ Max(V) # Min(V) =>
                 /\ ~Less(n, Num(0)) /\ ~Greater(n, Hundred)
                 /\ v = Min(V) => n = Num(0)
                 /\ v = Max(V) => n = Hundred

\* C8 (as claimed): volume_normalized is (v - min) / (max - min) * 100 with
\* min and max taken over all rows that survive the inner join, before the
\* drop-missing step.
C8_ScaledOverJoined ==
    (HasVolumeNormalized /\ NRows(merged_data) > 0) => ScaledOver(JoinedVolumes)

\* C8 (amended): volume_normalized is (v - min) / (max - min) * 100 with min
\* and max taken over the rows that remain after the drop-missing step
\* (absent when max = min); when max != min every value lies in [0, 100],
\* the minimal volume gets 0 and the maximal volume gets 100.
C8_ScaledOverMerged ==
    (HasVolumeNormalized /\ NRows(merged_data) > 0) => ScaledOver(MergedVolumes)

\* a row dropped by the drop-missing step had a volume outside the range of
\* the remaining rows, whose volumes differ
C8_Witness ==
    /\ HasVolumeNormalized
    /\ NRows(merged_data) >= 2
    /\ Max(MergedVolumes) # Min(MergedVolumes)
    /\ JoinedVolumes # MergedVolumes

\* the row (and column) keys of the correlation matrix
CorrelationKeys == { correlation[i] : i \in 1..Len(correlation) }

\* C14 (as claimed): in both merge pipelines the correlation matrix computed
\* by the run has one row and one column for every column of the merged
\* table, including the derived trend_percentage and volume_normalized
\* (volume_normalized is derived before the correlation is computed).
C14_CorrelationCoversDerived ==
    (IsMerge /\ pc \in {"correlated", "done"}) =>
        /\ <<sTrendPercentage>> \in CorrelationKeys
        /\ <<sVolumeNormalized>> \in CorrelationKeys
        /\ pc = "correlated" =>
              CorrelationKeys
                = { merged_data.columns[i] : i \in 1..Len(merged_data.columns) }

\* the run is past its calculate_trend_percentage call
PercentageStageRan == IsMerge /\ pc \notin {"start", "trend_downloaded"}

\* C15 (as claimed): for every search term a merge pipeline is run with,
\* calculate_trend_percentage derives Trend_Percentage from the interest
\* column of that queried term, and plot_correlation plots that same column.
C15_QueriedTermColumn ==
    (PercentageStageRan /\ HasCol(trend_data, search_term)) =>
        /\ HasCol(trend_data, sTrendPercentage)
        /\ \A i \in 1..NRows(trend_data) :
              Cell(trend_data, i, sTrendPercentage)
                = IF i = 1 THEN NaN
                  ELSE ExpectedPct(Cell(trend_data, i, search_term).num,
                                   Cell(trend_data, i - 1, search_term).num)
        /\ plotted.shown => HasCol(plotted.df, search_term)

----------------------------------------------------------------------------
(* Properties of the class-based merge session.                            *)

\* the methods that need earlier calls, and whether those are still missing
GuardedMethods ==
    {"align_data", "normalize_volume", "calculate_correlation", "plot_correlation"}
PrerequisiteMissing(method) ==
    IF method = "align_data" THEN trend_data.isnone \/ stock_data.isnone
    ELSE merged_data.isnone

\* this step is a call of the method
CallOf(method) == pc' = method /\ vars' # vars

\* merged_data becomes non-None only in an align_data call that returns
\* normally with both tables downloaded
MergedOnlyByAlign ==
    (merged_data.isnone /\ ~merged_data'.isnone) =>
        /\ pc' = "align_data" /\ err' = ""
        /\ ~trend_data.isnone /\ ~stock_data.isnone

\* C16 (as claimed): merged_data is non-None only if align_data has
\* completed successfully after both download_trend_data and
\* download_ohlcv_data; calling align_data, normalize_volume,
\* calculate_correlation or plot_correlation before their prerequisites
\* fails with an error and leaves trend_data, stock_data and merged_data
\* unchanged.
C16_FailedCallChangesNothing ==
    [][/\ MergedOnlyByAlign
       /\ \A m \in GuardedMethods :
             (CallOf(m) /\ PrerequisiteMissing(m)) =>
                 /\ err' # ""
                 /\ UNCHANGED <<trend_data, stock_data, merged_data>>]_vars

\* C16 (amended): merged_data is non-None only if align_data has completed
\* successfully after both downloads; calling align_data, normalize_volume,
\* calculate_correlation or plot_correlation before their prerequisites
\* fails with an error and leaves trend_data and merged_data unchanged, and
\* stock_data unchanged too except in one case: align_data called with the
\* price table downloaded and the interest table not has already replaced
\* stock_data by its reset-index form when it fails.
C16_FailedCallKeepsMerged ==
    [][/\ MergedOnlyByAlign
       /\ \A m \in GuardedMethods :
             (CallOf(m) /\ PrerequisiteMissing(m)) =>
                 /\ err' # ""
                 /\ UNCHANGED <<trend_data, merged_data>>
                 /\ IF m = "align_data" /\ ~stock_data.isnone /\ CanResetIndex(stock_data)
                    THEN stock_data' = reset_index(stock_data)
                    ELSE UNCHANGED stock_data]_vars

\* align_data has failed for want of the interest table and left the price
\* table with its dates moved into a column
C16_Witness ==
    /\ script = "session"
    /\ pc = "align_data" /\ err = "AttributeError"
    /\ trend_data.isnone /\ merged_data.isnone
    /\ ~stock_data.isnone /\ HasCol(stock_data, sDate)

----------------------------------------------------------------------------
(* Properties of the provider requests.                                    *)

FailedRequests == { i \in 1..Len(requests) : ~requests[i].ok }

\* the next statement of the __main__ block is a fetch call
AtFetchCall == pc = "start" \/ (IsMerge /\ pc = "percentage_calculated")

\* a step adds one request to the log when it is a fetch call and none
\* otherwise
OneRequestPerFetch ==
    Len(requests') = Len(requests) + (IF AtFetchCall THEN 1 ELSE 0)

\* the run ended at the failed request: it is the last one in the log, the
\* error reached the process boundary, and nothing was aligned, correlated,
\* printed or drawn
AbortedAtRequest ==
    /\ FailedRequests = {Len(requests)}
    /\ pc = "failed" /\ err = "ProviderError"
    /\ merged_data = None /\ correlation = <<>> /\ console = <<>>
    /\ ~plotted.shown /\ sentiment = "" /\ percentage = NoPercentage

\* C13: each fetch call performs exactly one provider request; when that
\* request fails the error is neither caught nor retried, and in that run no
\* later pipeline stage (align, correlation, console printout, chart render)
\* is ever executed.
C13_OneRequestNoRetry ==
    /\ [][OneRequestPerFetch]_vars
    /\ [](FailedRequests # {} => AbortedAtRequest)
    /\ [][pc = "failed" => pc' = "failed"]_vars

\* a merge run that fetched the interest series and computed its percentage
\* change, and then ended at the failed price request
C13_Witness ==
    /\ IsMerge /\ pc = "failed" /\ err = "ProviderError"
    /\ Len(requests) = 2 /\ requests[1].ok /\ ~requests[2].ok
    /\ HasCol(trend_data, sTrendPercentage) /\ stock_data = None

----------------------------------------------------------------------------
(* Properties of the trend helpers.                                        *)

\* the sum of the window of width w ending at position i of the series
RECURSIVE WindowSum(_, _, _)
WindowSum(s, i, w) == IF w = 0 THEN 0 ELSE s[i].num + WindowSum(s, i - 1, w - 1)

\* the sentiment from the first and the last valid moving-average values:
\* the averages of the first and of the last full window
ExpectedSentiment(s, w) ==
    LET first == WindowSum(s, w, w)
        last == WindowSum(s, Len(s), w)
    IN  IF last > first THEN "Positive"
        ELSE IF last < first THEN "Negative" ELSE "Neutral"

\* C4 (as claimed): the function-based and the class-based trend_analysis
\* return the same result for every interest series and every window.
C4_SameResult ==
    (h_func.called /\ h_oop.called) => h_func = h_oop

\* C5 (as claimed): the trend-sentiment helper, function-based or
\* class-based, classifies a series by the first and the last valid values
\* of its moving average: Positive if last > first, Negative if last <
\* first, Neutral if equal.
C5_FirstLastValid ==
    \A h \in {h_func, h_oop} :
        (h.called /\ Len(h_series) >= h_window) =>
            (h.err = "" /\ h.sentiment = ExpectedSentiment(h_series, h_window))

\* b to the power e
RECURSIVE Pow(_, _)
Pow(b, e) == IF e = 0 THEN 1 ELSE b * Pow(b, e - 1)

\* (w + 1)^(t - 1) times the EMA at position t, unrolled: the first value
\* weighs (w - 1)^(t - 1), the value at position i > 1 weighs
\* 2 * (w - 1)^(t - i) * (w + 1)^(i - 2)
RECURSIVE UnrolledEma(_, _, _, _)
UnrolledEma(s, w, t, i) ==
    IF i = 1 THEN Pow(w - 1, t - 1) * s[1].num
    ELSE 2 * Pow(w - 1, t - i) * Pow(w + 1, i - 2) * s[i].num
         + UnrolledEma(s, w, t, i - 1)

EmaExampleInput == <<Num(10), Num(20), Num(30)>>
EmaExampleOutput == <<Num(10), Num(15), Rat(45, 2)>>

\* C11: calculate_ema(series, window) is the recursive EMA without bias
\* adjustment: EMA[0] = value[0] and EMA[t] = alpha * value[t] +
\* (1 - alpha) * EMA[t-1] with alpha = 2 / (window + 1) for every t > 0 (so
\* each output is the unrolled weighted sum of the inputs so far); the
\* input [10, 20, 30] with span 3 gives [10, 15, 22.5].
C11_RecursiveEma ==
    h_ema.called =>
        LET alpha == Rat(2, h_window + 1)
            ema == h_ema.values
        IN  /\ Len(ema) = Len(h_series)
            /\ \A t \in 1..Len(ema) :
                  /\ t = 1 => ema[t] = h_series[1]
                  /\ t > 1 => ema[t] = Add(Mul(alpha, h_series[t]),
                                           Mul(Sub(Num(1), alpha), ema[t - 1]))
                  /\ IsNum(ema[t])
                  /\ ema[t].num * Pow(h_window + 1, t - 1)
                       = ema[t].den * UnrolledEma(h_series, h_window, t, t)
            /\ (h_series = EmaExampleInput /\ h_window = 3)
                  => ema = EmaExampleOutput

\* the worked example has been computed
C11_Witness ==
    /\ h_ema.called
    /\ h_series = EmaExampleInput /\ h_window = 3
    /\ h_ema.values[3] = Rat(45, 2)

\* C12: the percentage-trend helper returns ((last - first) / first) * 100
\* computed from the first and the last raw values of the series (not of
\* the moving average), with Positive if that change is > 0, Negative if it
\* is < 0 and Neutral if it is = 0; [100, 90] gives (-10, Negative) and
\* [100, 100] gives (0, Neutral).
C12_RawFirstLast ==
    (h_pct.called /\ Len(h_series) >= 1) =>
        LET first == h_series[1].num
            last == h_series[Len(h_series)].num
        IN  /\ h_pct.err = ""
            /\ h_pct.change = ExpectedPct(last, first)
            /\ first # 0 => h_pct.change = Rat((last - first) * 100, first)
            /\ Greater(h_pct.change, Num(0)) => h_pct.sentiment = "Positive"
            /\ Less(h_pct.change, Num(0)) => h_pct.sentiment = "Negative"
            /\ h_pct.change = Num(0) => h_pct.sentiment = "Neutral"
            /\ (first > 0 /\ last > first) => h_pct.sentiment = "Positive"
            /\ (first > 0 /\ last < first) => h_pct.sentiment = "Negative"
            /\ (first > 0 /\ last = first) => h_pct.sentiment = "Neutral"
            /\ h_series = <<Num(100), Num(90)>>
                 => (h_pct.change = Num(-10) /\ h_pct.sentiment = "Negative")
            /\ h_series = <<Num(100), Num(100)>>
                 => (h_pct.change = Num(0) /\ h_pct.sentiment = "Neutral")

\* a series whose raw ends and whose moving-average ends point in different
\* directions has been classified by its raw ends
C12_Witness ==
    /\ h_pct.called
    /\ h_series = <<Num(3), Num(100), Num(7), Num(5), Num(50)>>
    /\ h_pct.sentiment = "Positive"
    /\ Less(rolling_mean(h_series, 3)[5], rolling_mean(h_series, 3)[3])

----------------------------------------------------------------------------
(* Properties of the column collapsing.                                    *)

PriceColumnNames == { <<sDate>>, <<sOpen>>, <<sHigh>>, <<sLow>>, <<sClose>>, <<sVolume>> }
NamesOf(c) == { c.names[i] : i \in 1..Len(c.names) }

\* C9 (as claimed): for every ticker symbol, joining the levels with '_' and
\* stripping the detected ticker token gives the same single-level names as
\* keeping the outer level: exactly Date, Open, High, Low, Close, Volume.
C9_SameNames ==
    (cols_func.called /\ cols_oop.called) =>
        /\ cols_func.err = "" /\ cols_oop.err = ""
        /\ cols_func.names = cols_oop.names
        /\ NamesOf(cols_func) = PriceColumnNames

----------------------------------------------------------------------------
(* Properties of get_timeframe.                                            *)

DigitVal(c) == CHOOSE k \in 0..9 : DigitChars[k + 1] = c
IsDigit(c) == \E k \in 1..10 : DigitChars[k] = c

\* s has the form YYYY-MM-DD
IsYmd(s) ==
    /\ Len(s) = 10
    /\ s[5] = "-" /\ s[8] = "-"
    /\ \A i \in {1, 2, 3, 4, 6, 7, 9, 10} : IsDigit(s[i])

\* the day number of the date a YYYY-MM-DD string names
ParseYmd(s) ==
    DaysFromCivil(1000 * DigitVal(s[1]) + 100 * DigitVal(s[2])
                    + 10 * DigitVal(s[3]) + DigitVal(s[4]),
                  10 * DigitVal(s[6]) + DigitVal(s[7]),
                  10 * DigitVal(s[9]) + DigitVal(s[10]))

\* a sorts before b as a string of digits and dashes of the same shape
StringBefore(a, b) ==
    \E i \in 1..Len(a) :
        /\ \A j \in 1..(i - 1) : a[j] = b[j]
        /\ IsDigit(a[i]) /\ IsDigit(b[i]) /\ DigitVal(a[i]) < DigitVal(b[i])

StartPart == SubSeq(timeframe, 1, 10)
EndPart == SubSeq(timeframe, 12, 21)

\* the string is "<today - days_back> <today>", both dates as YYYY-MM-DD
TimeframeShape ==
    /\ Len(timeframe) = 21 /\ timeframe[11] = " "
    /\ IsYmd(StartPart) /\ IsYmd(EndPart)
    /\ ParseYmd(StartPart) = today - days_back
    /\ ParseYmd(EndPart) = today

\* C10 (as claimed): for every days_back n, get_timeframe(n) returns
\* "<today-n> <today>" with both dates as YYYY-MM-DD and today-n
\* chronologically before today.
C10_StartBeforeEnd ==
    timeframe # <<>> => (TimeframeShape /\ StringBefore(StartPart, EndPart))

\* C10 (amended): for every days_back n, get_timeframe(n) returns
\* "<today-n> <today>" with both dates as YYYY-MM-DD; today-n is
\* chronologically before today for every n >= 1 (for n = 0 the two dates
\* are the same day).
C10_StartBeforeEndIfPositive ==
    timeframe # <<>> =>
        /\ TimeframeShape
        /\ days_back >= 1 => StringBefore(StartPart, EndPart)
        /\ days_back = 0 => StartPart = EndPart

\* a window of at least one day that starts in an earlier month than today
C10_Witness ==
    /\ timeframe # <<>>
    /\ days_back >= 1
    /\ SubSeq(StartPart, 6, 7) # SubSeq(EndPart, 6, 7)
    /\ StringBefore(StartPart, EndPart)

====
